---- MODULE Spec2Model ----
(***************************************************************************)
(* QDDC: a TypeScript Engine (src/src/engine/engine.ts) and host Sprite    *)
(* mirror (src/src/engine/sprite.ts) wrapping a WASM core, World.  The     *)
(* core's Rust source is not part of src/: its operations (the W...        *)
(* operators below) are modelled from spec.md sections 3, 4 and 7.  The    *)
(* Engine and Sprite operators are translated from the TypeScript.         *)
(*                                                                         *)
(* Numbers are abstracted to small integers: a position is a pair of       *)
(* integers, a rotation an integer number of quarter turns, a scale a pair *)
(* of positive integers, a colour a tuple <<r, g, b, a>>.  Buffers are     *)
(* sequences of pixels; a byte length is 4 times a pixel count.            *)
(***************************************************************************)
EXTENDS Integers, Sequences, FiniteSets, TLC

\* Number of slots of the core's sprite arena (handles are 0 .. NumSlots-1).
NumSlots == 2
\* Number of host Sprite objects the callers ever hold.
MaxObjs == 2

Handles == 0 .. (NumSlots - 1)
NoObj == 0

Ok == "Ok"
InvalidHandle == "InvalidHandle"
InvalidDimensions == "InvalidDimensions"
BufferSizeMismatch == "BufferSizeMismatch"
RangeError == "RangeError"

VARIABLES
    world,      \* the WASM World (core): slots, scene, bg, frame buffer
    sprites,    \* Engine.sprites: Map<number, Sprite>, as handle -> object (NoObj: no entry)
    imageData,  \* Engine.imageData: [width, height, data]
    objs,       \* the host Sprite objects ever constructed, in creation order
    last,       \* the call that made the last step: [op, obj, err, inScene, args, calls]
    removedH,   \* handles removed by a successful Engine.removeSprite and not recycled since
    aliased,    \* handles whose slot was written through a Sprite object that is not registered for it
    bgSet,      \* the colour of the latest Engine.setBackgroundColor call (<<>>: none yet)
    samplingSet, \* the method of the latest Engine.setSamplingMethod call ("": none yet)
    lastOrder,  \* the compositing order of the latest core render pass
    lastRead,   \* the latest frame-buffer read of the Engine: [ptr, len, fresh, order]
    demo        \* the demo page (main.ts): its module variables and the DOM state it keeps

vars == <<world, sprites, imageData, objs, last, removedH, aliased, bgSet, samplingSet,
          lastOrder, lastRead, demo>>

----------------------------------------------------------------------------
(* Colours and pixel buffers *)

Transparent == <<0, 0, 0, 0>>

RECURSIVE Fill(_, _)
Fill(n, c) == IF n <= 0 THEN <<>> ELSE <<c>> \o Fill(n - 1, c)

\* "over" compositing of one channel, alpha in 0..255
BlendChannel(src, dst, a) == (src * a + dst * (255 - a)) \div 255

Over(src, dst) ==
    <<BlendChannel(src[1], dst[1], src[4]),
      BlendChannel(src[2], dst[2], src[4]),
      BlendChannel(src[3], dst[3], src[4]),
      src[4] + (dst[4] * (255 - src[4])) \div 255>>

----------------------------------------------------------------------------
(* The core: Sprite Store *)

\* cos and sin of a rotation of k quarter turns
Cos4(k) == CASE k % 4 = 0 -> 1 [] k % 4 = 2 -> -1 [] OTHER -> 0
Sin4(k) == CASE k % 4 = 1 -> 1 [] k % 4 = 3 -> -1 [] OTHER -> 0

\* Translate(position) . Rotate(rotation) . Scale(scale) as <<a, b, c, d, e, f>>:
\* the local offset (u, v) maps to (a u + b v + e, c u + d v + f)
ForwardMatrix(position, rotation, scale) ==
    <<Cos4(rotation) * scale[1], -Sin4(rotation) * scale[2],
      Sin4(rotation) * scale[1], Cos4(rotation) * scale[2],
      position[1], position[2]>>

\* matrix is the cached forward matrix, stale its "transform stale" bit
DeadSlot ==
    [live |-> FALSE, position |-> <<0, 0>>, rotation |-> 0, scale |-> <<1, 1>>,
     zindex |-> 0, width |-> 0, height |-> 0, color |-> Transparent,
     matrix |-> ForwardMatrix(<<0, 0>>, 0, <<1, 1>>), stale |-> FALSE]

NewSlot(width, height, color) ==
    [live |-> TRUE, position |-> <<0, 0>>, rotation |-> 0, scale |-> <<1, 1>>,
     zindex |-> 0, width |-> width, height |-> height, color |-> color,
     matrix |-> ForwardMatrix(<<0, 0>>, 0, <<1, 1>>), stale |-> FALSE]

Live(w, h) == h \in Handles /\ w.slots[h].live

FreeHandles(w) == {h \in Handles : ~w.slots[h].live}

Res(err, w) == [err |-> err, w |-> w]

\* z-index ascending, ties by ascending handle
Before(slots, a, b) ==
    \/ slots[a].zindex < slots[b].zindex
    \/ slots[a].zindex = slots[b].zindex /\ a < b

RECURSIVE SortHandles(_, _)
SortHandles(S, slots) ==
    IF S = {} THEN <<>>
    ELSE LET m == CHOOSE x \in S : \A y \in S \ {x} : Before(slots, x, y)
         IN <<m>> \o SortHandles(S \ {m}, slots)

SeqRange(s) == {s[i] : i \in 1 .. Len(s)}

RECURSIVE Without(_, _)
Without(s, h) ==
    IF s = <<>> THEN <<>>
    ELSE IF Head(s) = h THEN Without(Tail(s), h)
    ELSE <<Head(s)>> \o Without(Tail(s), h)

Touch(w) == [w EXCEPT !.fresh = "stale"]

WCreateRectSprite(w, h, width, height, color) ==
    IF width * height <= 0 \/ width < 0 THEN Res(InvalidDimensions, w)
    ELSE Res(Ok, Touch([w EXCEPT !.slots[h] = NewSlot(width, height, color)]))

WCreateSprite(w, h, pixelsLen, width, height, color) ==
    IF width * height <= 0 \/ width < 0 THEN Res(InvalidDimensions, w)
    ELSE IF pixelsLen # width * height * 4 THEN Res(BufferSizeMismatch, w)
    ELSE Res(Ok, Touch([w EXCEPT !.slots[h] = NewSlot(width, height, color)]))

\* A remove_sprite that frees the slot and leaves the scene list as it was
WRemoveSpriteKeepScene(w, h) ==
    IF ~Live(w, h) THEN Res(InvalidHandle, w)
    ELSE Res(Ok, Touch([w EXCEPT !.slots[h] = DeadSlot]))

WRemoveSprite(w, h) ==
    IF ~Live(w, h) THEN Res(InvalidHandle, w)
    ELSE Res(Ok, Touch([w EXCEPT !.slots[h] = DeadSlot, !.scene = Without(@, h)]))

WSetSpritePosition(w, h, p) ==
    IF ~Live(w, h) THEN Res(InvalidHandle, w)
    ELSE Res(Ok, Touch([w EXCEPT !.slots[h].position = p,
                                 !.slots[h].stale = TRUE]))

WSetSpriteZIndex(w, h, z) ==
    IF ~Live(w, h) THEN Res(InvalidHandle, w)
    ELSE LET slots2 == [w.slots EXCEPT ![h].zindex = z]
         IN Res(Ok, Touch([w EXCEPT !.slots = slots2,
                                    !.scene = SortHandles(SeqRange(@), slots2)]))

WGetSpriteZIndex(w, h) == w.slots[h].zindex

WApplySpriteTransform(w, h, rotation, scale) ==
    IF ~Live(w, h) THEN Res(InvalidHandle, w)
    ELSE Res(Ok, Touch([w EXCEPT !.slots[h].rotation = rotation,
                                 !.slots[h].scale = scale,
                                 !.slots[h].stale = TRUE]))

WResetSpriteTransform(w, h) ==
    IF ~Live(w, h) THEN Res(InvalidHandle, w)
    ELSE Res(Ok, Touch([w EXCEPT !.slots[h].rotation = 0,
                                 !.slots[h].scale = <<1, 1>>,
                                 !.slots[h].stale = TRUE]))

(* The core: Scene *)

WAddToScene(w, h) ==
    IF ~Live(w, h) THEN Res(InvalidHandle, w)
    ELSE IF h \in SeqRange(w.scene) THEN Res(Ok, w)
    ELSE Res(Ok, Touch([w EXCEPT !.scene = Append(@, h)]))

WRemoveFromScene(w, h) ==
    IF h \notin SeqRange(w.scene) THEN Res(Ok, w)
    ELSE Res(Ok, Touch([w EXCEPT !.scene = Without(@, h)]))

WSetBackgroundColor(w, c) == Res(Ok, Touch([w EXCEPT !.bg = c]))

----------------------------------------------------------------------------
(* The core: Compositor and Shared Buffer Interface *)

Garbage == <<-1, -1, -1, -1>>

\* The offset d = scenePoint - position taken back through the rotation
\* (quarter turns): R^-1 d.
Unrotate(k, d) ==
    CASE k % 4 = 0 -> d
      [] k % 4 = 1 -> <<d[2], -d[1]>>
      [] k % 4 = 2 -> <<-d[1], -d[2]>>
      [] OTHER     -> <<-d[2], d[1]>>

\* Whether the local coordinate of destination pixel (px, py) lies in
\* [0,width) x [0,height) of the sprite in slot s.  The local coordinate is
\* u / scale + size / 2 with u the unrotated offset from the sprite's centre;
\* it is compared after multiplying by 2 * scale.
Covers(s, px, py) ==
    LET u  == Unrotate(s.rotation, <<px - s.position[1], py - s.position[2]>>)
        tx == 2 * u[1] + s.width * s.scale[1]
        ty == 2 * u[2] + s.height * s.scale[2]
    IN /\ s.scale[1] > 0 /\ s.scale[2] > 0
       /\ 0 <= tx /\ tx < 2 * s.width * s.scale[1]
       /\ 0 <= ty /\ ty < 2 * s.height * s.scale[2]

PixelX(w, i) == (i - 1) % w.width
PixelY(w, i) == (i - 1) \div w.width

(* The core: Sampler.  A local coordinate is kept as a pair of numerators  *)
(* n over the denominators 4 * scale: n / (4 * scale) is the coordinate in  *)
(* the sprite's pixel space, so that the quarter-pixel offsets of           *)
(* supersampling stay integers.  A sprite's pixels all have its colour.     *)

Nearest == 0
Bilinear == 1
Supersampling == 2

\* The local coordinate of the scene point p + d4 / 4 given as d4 = 4 * (point - position)
LocalNum(s, d4) ==
    LET u == Unrotate(s.rotation, d4)
    IN <<u[1] + 2 * s.width * s.scale[1], u[2] + 2 * s.height * s.scale[2]>>

\* The local coordinate lies in [0,width) x [0,height)
InRect(s, n) ==
    /\ 0 <= n[1] /\ n[1] < 4 * s.scale[1] * s.width
    /\ 0 <= n[2] /\ n[2] < 4 * s.scale[2] * s.height

\* The weight (out of 2 * D) that linear interpolation along one axis gives
\* to the pixels 0 .. size-1 at coordinate n / D: the two pixels whose
\* centres surround the coordinate, each by its distance to the other.
AxisWeight(n, D, size) ==
    LET f  == 2 * n - D
        i0 == f \div (2 * D)
        w1 == f % (2 * D)
        w0 == 2 * D - w1
    IN (IF 0 <= i0 /\ i0 < size THEN w0 ELSE 0)
       + (IF 0 <= i0 + 1 /\ i0 + 1 < size THEN w1 ELSE 0)

\* bilinear: the four surrounding pixels weighted by distance, each channel
\* (alpha included) on its own; a neighbour outside the sprite is transparent
SampleBilinear(s, n) ==
    LET wx == AxisWeight(n[1], 4 * s.scale[1], s.width)
        wy == AxisWeight(n[2], 4 * s.scale[2], s.height)
        d  == (8 * s.scale[1]) * (8 * s.scale[2])
    IN [k \in 1 .. 4 |-> (s.color[k] * wx * wy) \div d]

\* One sub-sample of supersampling: a sample of its own
SubSample(s, n) == IF InRect(s, n) THEN SampleBilinear(s, n) ELSE Transparent

\* supersampling: the bilinear result at the four quarter-pixel offsets of
\* the destination pixel, averaged channel by channel
SampleSupersampling(s, d4) ==
    LET a == SubSample(s, LocalNum(s, <<d4[1] - 1, d4[2] - 1>>))
        b == SubSample(s, LocalNum(s, <<d4[1] + 1, d4[2] - 1>>))
        c == SubSample(s, LocalNum(s, <<d4[1] - 1, d4[2] + 1>>))
        d == SubSample(s, LocalNum(s, <<d4[1] + 1, d4[2] + 1>>))
    IN [k \in 1 .. 4 |-> (a[k] + b[k] + c[k] + d[k]) \div 4]

\* A sampler that tests the rectangle for nearest only and lets the filters
\* weigh whatever pixels they reach
SampleUnclipped(s, method, px, py) ==
    LET d4 == <<4 * (px - s.position[1]), 4 * (py - s.position[2])>>
        n  == LocalNum(s, d4)
    IN CASE method = Bilinear -> SampleBilinear(s, n)
         [] method = Supersampling -> SampleSupersampling(s, d4)
         [] OTHER -> IF InRect(s, n) THEN s.color ELSE Transparent

\* sample(sprite, localCoordinate) for the destination pixel (px, py): a
\* coordinate outside the sprite's rectangle is transparent under every
\* method
Sample(s, method, px, py) ==
    LET d4 == <<4 * (px - s.position[1]), 4 * (py - s.position[2])>>
        n  == LocalNum(s, d4)
    IN IF ~InRect(s, n) THEN Transparent
       ELSE CASE method = Bilinear -> SampleBilinear(s, n)
              [] method = Supersampling -> SampleSupersampling(s, d4)
              [] OTHER -> s.color

WSetSamplingMethod(w, v) ==
    IF v \in {Nearest, Bilinear, Supersampling}
    THEN Res(Ok, Touch([w EXCEPT !.method = v]))
    ELSE Res(Ok, w)

WGetSamplingMethod(w) == w.method

\* One sprite composited over the buffer `data`: a pixel changes only where
\* the sample's coverage is not zero
Composite(w, data, h) ==
    [i \in 1 .. Len(data) |->
        LET c == Sample(w.slots[h], w.method, PixelX(w, i), PixelY(w, i))
        IN IF c[4] = 0 THEN data[i] ELSE Over(c, data[i])]

RECURSIVE CompositeAll(_, _, _)
CompositeAll(w, data, order) ==
    IF order = <<>> THEN data
    ELSE CompositeAll(w, Composite(w, data, Head(order)), Tail(order))

OrderedVisible(w) == SortHandles(SeqRange(w.scene), w.slots)

\* The stale matrices of the sprites of the scene recomputed
Recomputed(w) ==
    [h \in Handles |->
        IF h \in SeqRange(w.scene) /\ w.slots[h].stale
        THEN [w.slots[h] EXCEPT
                 !.matrix = ForwardMatrix(w.slots[h].position, w.slots[h].rotation,
                                          w.slots[h].scale),
                 !.stale = FALSE]
        ELSE w.slots[h]]

WRender(w) ==
    LET order   == OrderedVisible(w)
        cleared == Fill(w.width * w.height, w.bg)
        w1      == [w EXCEPT !.slots = Recomputed(w)]
    IN Res(Ok, [w1 EXCEPT !.scene = order,
                          !.data = CompositeAll(w1, cleared, order),
                          !.fresh = "current"])

WResizeScene(w, width, height, ptr) ==
    IF width <= 0 \/ height <= 0 THEN Res(InvalidDimensions, w)
    ELSE Res(Ok, [w EXCEPT !.width = width, !.height = height,
                           !.data = Fill(width * height, Transparent),
                           !.ptr = ptr, !.fresh = "stale"])

WSceneDataPtr(w) == w.ptr
WSceneDataLen(w) == 4 * Len(w.data)

\* new Uint8ClampedArray(memory.buffer, ptr, len): the frame buffer when ptr
\* is its current address, whatever lies at ptr otherwise.
MemoryView(w, ptr, len) ==
    IF ptr = w.ptr /\ len <= 4 * Len(w.data)
    THEN SubSeq(w.data, 1, len \div 4)
    ELSE Fill(len \div 4, Garbage)

NewWorld(width, height) ==
    [slots |-> [h \in Handles |-> DeadSlot], scene |-> <<>>,
     bg |-> <<0, 0, 0, 255>>, method |-> Nearest, width |-> width, height |-> height,
     data |-> Fill(width * height, Transparent), ptr |-> 0, fresh |-> "stale"]

----------------------------------------------------------------------------
(* The host Sprite object (sprite.ts) *)

\* new Sprite(id), then _setUpdateFn by the Engine
NewSprite(id) ==
    [id |-> id, position |-> <<0, 0>>, rotation |-> 0, scale |-> <<1, 1>>,
     zindex |-> 0, transformDirty |-> FALSE, updateFn |-> TRUE]

\* A sync that does not push the z-index
SyncSpriteToWasmNoZIndex(w, s) ==
    LET r1 == WSetSpritePosition(w, s.id, s.position)
        r3 == WApplySpriteTransform(r1.w, s.id, s.rotation, s.scale)
        c1 == <<"set_sprite_position">>
        c3 == <<"set_sprite_position", "apply_sprite_transform">>
    IN IF r1.err # Ok THEN [err |-> r1.err, w |-> r1.w, s |-> s, calls |-> c1]
       ELSE IF ~s.transformDirty THEN [err |-> Ok, w |-> r1.w, s |-> s, calls |-> c1]
       ELSE IF r3.err # Ok THEN [err |-> r3.err, w |-> r3.w, s |-> s, calls |-> c3]
       ELSE [err |-> Ok, w |-> r3.w, s |-> [s EXCEPT !.transformDirty = FALSE],
             calls |-> c3]

\* Engine._syncSpriteToWasm: the result is [err, w, s, calls]; a throwing
\* core call ends the sync with the calls made before it kept.  calls is the
\* sequence of core calls made, the throwing one included.
SyncSpriteToWasm(w, s) ==
    LET r1 == WSetSpritePosition(w, s.id, s.position)
        r2 == WSetSpriteZIndex(r1.w, s.id, s.zindex)
        r3 == WApplySpriteTransform(r2.w, s.id, s.rotation, s.scale)
        c1 == <<"set_sprite_position">>
        c2 == <<"set_sprite_position", "set_sprite_zindex">>
        c3 == <<"set_sprite_position", "set_sprite_zindex", "apply_sprite_transform">>
    IN IF r1.err # Ok THEN [err |-> r1.err, w |-> r1.w, s |-> s, calls |-> c1]
       ELSE IF r2.err # Ok THEN [err |-> r2.err, w |-> r2.w, s |-> s, calls |-> c2]
       ELSE IF ~s.transformDirty THEN [err |-> Ok, w |-> r2.w, s |-> s, calls |-> c2]
       ELSE IF r3.err # Ok THEN [err |-> r3.err, w |-> r3.w, s |-> s, calls |-> c3]
       ELSE [err |-> Ok, w |-> r3.w, s |-> [s EXCEPT !.transformDirty = FALSE],
             calls |-> c3]

\* Sprite._notifyUpdate
NotifyUpdate(w, s) ==
    IF s.updateFn THEN SyncSpriteToWasm(w, s)
    ELSE [err |-> Ok, w |-> w, s |-> s, calls |-> <<>>]

VecAdd(a, b) == <<a[1] + b[1], a[2] + b[2]>>
VecMul(a, b) == <<a[1] * b[1], a[2] * b[2]>>

SpriteTranslate(w, s, d) ==
    NotifyUpdate(w, [s EXCEPT !.position = VecAdd(@, d)])

\* A setPosition that writes the fields and does not notify the Engine
SpriteSetPositionNoNotify(w, s, p) ==
    [err |-> Ok, w |-> w, s |-> [s EXCEPT !.position = p], calls |-> <<>>]

SpriteSetPosition(w, s, p) ==
    NotifyUpdate(w, [s EXCEPT !.position = p])

SpriteRotate(w, s, angle) ==
    NotifyUpdate(w, [s EXCEPT !.rotation = @ + angle, !.transformDirty = TRUE])

SpriteSetRotation(w, s, angle) ==
    NotifyUpdate(w, [s EXCEPT !.rotation = angle, !.transformDirty = TRUE])

SpriteSetScale(w, s, sc) ==
    NotifyUpdate(w, [s EXCEPT !.scale = sc, !.transformDirty = TRUE])

SpriteScaleBy(w, s, f) ==
    NotifyUpdate(w, [s EXCEPT !.scale = VecMul(@, f), !.transformDirty = TRUE])

\* A setZIndex that writes the field and does not notify the Engine
SpriteSetZIndexNoNotify(w, s, z) ==
    [err |-> Ok, w |-> w, s |-> [s EXCEPT !.zindex = z], calls |-> <<>>]

SpriteSetZIndex(w, s, z) ==
    NotifyUpdate(w, [s EXCEPT !.zindex = z])

SpriteResetTransform(w, s) ==
    NotifyUpdate(w, [s EXCEPT !.rotation = 0, !.scale = <<1, 1>>,
                              !.transformDirty = TRUE])

----------------------------------------------------------------------------
(* The Engine (engine.ts): each operator is one method, from the state it   *)
(* reads to the state it leaves and the error it throws (Ok: none).         *)

\* ctx.createImageData(width, height): transparent black
Abs(n) == IF n < 0 THEN -n ELSE n

CreateImageData(width, height) ==
    [width |-> Abs(width), height |-> Abs(height),
     data |-> Fill(Abs(width) * Abs(height), Transparent)]

\* A createSprite that constructs and registers the Sprite before the core
\* has accepted the pixels
EngineCreateSpriteEager(w, reg, os, h, pixelsLen, width, height, color) ==
    LET r == WCreateSprite(w, h, pixelsLen, width, height, color)
    IN [err |-> r.err, w |-> r.w,
        reg |-> [reg EXCEPT ![h] = Len(os) + 1],
        os |-> Append(os, NewSprite(h))]

\* Engine.createSprite: h is the handle the core allocates
EngineCreateSprite(w, reg, os, h, pixelsLen, width, height, color) ==
    LET r == WCreateSprite(w, h, pixelsLen, width, height, color)
    IN IF r.err # Ok THEN [err |-> r.err, w |-> r.w, reg |-> reg, os |-> os]
       ELSE [err |-> Ok, w |-> r.w,
             reg |-> [reg EXCEPT ![h] = Len(os) + 1],
             os |-> Append(os, NewSprite(h))]

\* A createRectSprite that also shows the new sprite
EngineCreateRectSpriteShown(w, reg, os, h, width, height, color) ==
    LET r == WCreateRectSprite(w, h, width, height, color)
    IN IF r.err # Ok THEN [err |-> r.err, w |-> r.w, reg |-> reg, os |-> os]
       ELSE [err |-> Ok, w |-> WAddToScene(r.w, h).w,
             reg |-> [reg EXCEPT ![h] = Len(os) + 1],
             os |-> Append(os, NewSprite(h))]

\* Engine.createRectSprite
EngineCreateRectSprite(w, reg, os, h, width, height, color) ==
    LET r == WCreateRectSprite(w, h, width, height, color)
    IN IF r.err # Ok THEN [err |-> r.err, w |-> r.w, reg |-> reg, os |-> os]
       ELSE [err |-> Ok, w |-> r.w,
             reg |-> [reg EXCEPT ![h] = Len(os) + 1],
             os |-> Append(os, NewSprite(h))]

\* A removeSprite that forgets the core and only drops the registry entry
EngineRemoveSpriteRegistryOnly(w, reg, s) ==
    [err |-> Ok, w |-> w, reg |-> [reg EXCEPT ![s.id] = NoObj]]

\* Engine.removeSprite
EngineRemoveSprite(w, reg, s) ==
    LET r == WRemoveSprite(w, s.id)
    IN IF r.err # Ok THEN [err |-> r.err, w |-> r.w, reg |-> reg]
       ELSE [err |-> Ok, w |-> r.w, reg |-> [reg EXCEPT ![s.id] = NoObj]]

\* Engine.addToScene
EngineAddToScene(w, s) == WAddToScene(w, s.id)

\* A removeFromScene that calls remove_sprite
EngineRemoveFromSceneWrongCall(w, s) == WRemoveSprite(w, s.id)

\* Engine.removeFromScene
EngineRemoveFromScene(w, s) == WRemoveFromScene(w, s.id)

\* A setBackgroundColor that passes blue and red in each other's place
EngineSetBackgroundColorSwapped(w, c) ==
    WSetBackgroundColor(w, <<c[3], c[2], c[1], c[4]>>)

\* Engine.setBackgroundColor
EngineSetBackgroundColor(w, c) == WSetBackgroundColor(w, c)

\* type SamplingMethod, in the order of getSamplingMethod's array
MethodNames == <<"nearest", "bilinear", "supersampling">>

\* methodMap of setSamplingMethod
MethodMap(m) ==
    CASE m = "nearest" -> 0
      [] m = "bilinear" -> 1
      [] m = "supersampling" -> 2

\* A setSamplingMethod whose table has bilinear and supersampling exchanged
EngineSetSamplingMethodExchanged(w, m) ==
    WSetSamplingMethod(w, CASE m = "nearest" -> 0
                            [] m = "bilinear" -> 2
                            [] m = "supersampling" -> 1)

\* Engine.setSamplingMethod
EngineSetSamplingMethod(w, m) == WSetSamplingMethod(w, MethodMap(m))

\* Engine.getSamplingMethod: methods[value] || 'nearest'
EngineGetSamplingMethod(w) ==
    LET value == WGetSamplingMethod(w)
    IN IF value \in 0 .. (Len(MethodNames) - 1) THEN MethodNames[value + 1]
       ELSE "nearest"

\* A setSpriteZIndex that goes through the Sprite's own setter and its sync
EngineSetSpriteZIndexViaSync(w, s, z) == SpriteSetZIndex(w, s, z)

\* Engine.setSpriteZIndex: the host field is written before the core call
EngineSetSpriteZIndex(w, s, z) ==
    LET r == WSetSpriteZIndex(w, s.id, z)
    IN [err |-> r.err, w |-> r.w, s |-> [s EXCEPT !.zindex = z],
        calls |-> <<"set_sprite_zindex">>]

\* Engine.getSpriteZIndex
EngineGetSpriteZIndex(w, s) == WGetSpriteZIndex(w, s.id)

\* A resetSpriteTransform that resets the core and leaves the Sprite alone
EngineResetSpriteTransformCoreOnly(w, s) ==
    LET r == WResetSpriteTransform(w, s.id)
    IN [err |-> r.err, w |-> r.w, s |-> s, calls |-> <<"reset_sprite_transform">>]

\* Engine.resetSpriteTransform
EngineResetSpriteTransform(w, s) ==
    LET r1 == SpriteResetTransform(w, s)
        r2 == WResetSpriteTransform(r1.w, s.id)
    IN IF r1.err # Ok THEN r1
       ELSE [err |-> r2.err, w |-> r2.w, s |-> r1.s,
             calls |-> r1.calls \o <<"reset_sprite_transform">>]

\* A resize that keeps the ImageData of the old size
EngineResizeKeepImage(w, img, width, height, ptr) ==
    LET r == WResizeScene(w, width, height, ptr)
    IN [err |-> r.err, w |-> r.w, img |-> img]

\* A resize that replaces the World by a new one of the new size
EngineResizeNewWorld(w, img, width, height, ptr) ==
    IF width <= 0 \/ height <= 0 THEN [err |-> InvalidDimensions, w |-> w, img |-> img]
    ELSE [err |-> Ok, w |-> [NewWorld(width, height) EXCEPT !.ptr = ptr],
          img |-> CreateImageData(width, height)]

\* Engine.resize
EngineResize(w, img, width, height, ptr) ==
    LET r == WResizeScene(w, width, height, ptr)
    IN IF r.err # Ok THEN [err |-> r.err, w |-> r.w, img |-> img]
       ELSE [err |-> Ok, w |-> r.w, img |-> CreateImageData(width, height)]

\* imageData.data.set(data): throws when the source does not fit
TypedArraySet(img, data) ==
    IF Len(data) > Len(img.data) THEN [err |-> RangeError, img |-> img]
    ELSE [err |-> Ok,
          img |-> [img EXCEPT !.data = data \o SubSeq(@, Len(data) + 1, Len(@))]]

\* A render that copies the buffer without a core render pass
EngineRenderNoPass(w, img) ==
    LET ptr  == WSceneDataPtr(w)
        len  == WSceneDataLen(w)
        data == MemoryView(w, ptr, len)
        c    == TypedArraySet(img, data)
    IN [err |-> c.err, w |-> w, img |-> c.img, order |-> w.scene,
        read |-> [ptr |-> ptr, len |-> len, fresh |-> w.fresh]]

\* A render that reads through the address fetched when the Engine was
\* constructed
EngineRenderCachedPtr(w, img) ==
    LET w1   == WRender(w).w
        ptr  == 0
        len  == WSceneDataLen(w1)
        data == MemoryView(w1, ptr, len)
        c    == TypedArraySet(img, data)
    IN [err |-> c.err, w |-> w1, img |-> c.img, order |-> w1.scene,
        read |-> [ptr |-> ptr, len |-> len, fresh |-> w1.fresh]]

\* A render that reads the buffer before the core render pass
EngineRenderReadFirst(w, img) ==
    LET ptr  == WSceneDataPtr(w)
        len  == WSceneDataLen(w)
        data == MemoryView(w, ptr, len)
        c    == TypedArraySet(img, data)
        w1   == WRender(w).w
    IN [err |-> c.err, w |-> w1, img |-> c.img, order |-> w1.scene,
        read |-> [ptr |-> ptr, len |-> len, fresh |-> w.fresh]]

\* Engine.render (and the render, read and copy steps of renderWithTiming)
EngineRender(w, img) ==
    LET w1   == WRender(w).w
        ptr  == WSceneDataPtr(w1)
        len  == WSceneDataLen(w1)
        data == MemoryView(w1, ptr, len)
        c    == TypedArraySet(img, data)
    IN [err |-> c.err, w |-> w1, img |-> c.img, order |-> w1.scene,
        read |-> [ptr |-> ptr, len |-> len, fresh |-> w1.fresh]]

RegistrySize(reg) == Cardinality({h \in Handles : reg[h] # NoObj})

----------------------------------------------------------------------------
(* Inputs *)

InitDims == <<2, 1>>
PosValues == {<<0, 0>>, <<1, 0>>}
TranslateSteps == {<<1, 0>>, <<-1, 0>>}
RotValues == {0, 1}
RotateSteps == {1, -1}
ScaleValues == {<<1, 1>>, <<2, 2>>}
ScaleFactors == {<<2, 2>>}
ZValues == {0, 1}
Red == <<255, 0, 0, 255>>
Green == <<0, 255, 0, 255>>
\* width, height and pixel array length of a createSprite call
PixelInputs == {<<1, 1, 4>>, <<1, 1, 8>>, <<0, 1, 0>>}
RectInputs == {<<1, 1>>, <<0, 1>>}

FramePos == {<<5, 5>>}
BgColors == {<<20, 30, 48, 255>>, <<0, 0, 0, 255>>}
GoodDims == {<<1, 1>>, <<2, 1>>}
BadDims == {<<0, 1>>, <<1, -1>>}
ResizeDims == GoodDims \cup BadDims
Ptrs == {0, 1}

RenderOps == {"render", "renderWithTiming"}
NoRead == [ptr |-> -1, len |-> -1, fresh |-> "none", spriteCount |-> -1]

Held == 1 .. Len(objs)

\* The record of a call: its name, the Sprite object it went through (NoObj:
\* none), the error thrown (Ok: none) and whether that object's handle was
\* in the scene when the call was made.
Call(op, o, err) ==
    [op |-> op, obj |-> o, err |-> err,
     inScene |-> o # NoObj /\ o \in Held /\ objs[o].id \in SeqRange(world.scene),
     args |-> <<>>, calls |-> <<>>]

----------------------------------------------------------------------------
(* The demo page: module variables of main.ts and the handlers' effects *)

PERF_UPDATE_INTERVAL == 10

\* COLORS, each with the alpha 255 the create handlers pass
COLORS ==
    << <<255, 0, 0, 255>>, <<0, 255, 0, 255>>, <<0, 0, 255, 255>>, <<255, 255, 0, 255>>,
       <<255, 0, 255, 255>>, <<0, 255, 255, 255>>, <<255, 128, 0, 255>>, <<128, 0, 255, 255>> >>

UploadLabel == "upload"
LoadingLabel == "loading"

\* The page after main() has run and before any event: no sprite, the
\* performance panel expanded, the upload button enabled, no file chosen.
\* initialZ (creation order) and cleared are history of the handlers.
NewDemo ==
    [spriteCount |-> 0,
     sprites |-> [h \in Handles |-> NoObj],
     cards |-> {},
     perfEnabled |-> TRUE,
     collapsed |-> FALSE,
     toggleText |-> "-",
     perfUpdateCounter |-> 0,
     perfSprites |-> -1,
     uploadText |-> UploadLabel,
     uploadDisabled |-> FALSE,
     inputValue |-> "",
     loading |-> FALSE,
     initialZ |-> <<>>,
     cleared |-> FALSE]

\* The state a handler works on: the core, the Engine registry, the Sprite
\* objects and the page; err is the error that ended the handler (Ok: none)
DemoState(err, w, reg, os, d) == [err |-> err, w |-> w, reg |-> reg, os |-> os, d |-> d]

\* The common tail of the three create handlers on the new Sprite (the last
\* of r.os): setPosition, setSpriteZIndex with the counter, addToScene,
\* sprites.set and the new card
DemoShow(r, d, p) ==
    LET o  == Len(r.os)
        h  == r.os[o].id
        r1 == SpriteSetPosition(r.w, r.os[o], p)
        r2 == EngineSetSpriteZIndex(r1.w, r1.s, d.spriteCount)
        r3 == EngineAddToScene(r2.w, r2.s)
    IN IF r1.err # Ok
       THEN DemoState(r1.err, r1.w, r.reg, [r.os EXCEPT ![o] = r1.s], d)
       ELSE IF r2.err # Ok
       THEN DemoState(r2.err, r2.w, r.reg, [r.os EXCEPT ![o] = r2.s], d)
       ELSE IF r3.err # Ok
       THEN DemoState(r3.err, r3.w, r.reg, [r.os EXCEPT ![o] = r2.s], d)
       ELSE DemoState(Ok, r3.w, r.reg, [r.os EXCEPT ![o] = r2.s],
                      [d EXCEPT !.sprites[h] = o,
                                !.cards = @ \cup {h},
                                !.initialZ = Append(@, r2.s.zindex),
                                !.cleared = FALSE])

\* One rectangle of the createSprite and batchCreateSprites click handlers:
\* the counter is advanced before createRectSprite is called
DemoCreateRect(st, h, p) ==
    LET color == COLORS[(st.d.spriteCount % Len(COLORS)) + 1]
        d1    == [st.d EXCEPT !.spriteCount = @ + 1]
        r     == EngineCreateRectSprite(st.w, st.reg, st.os, h, 50, 50, color)
    IN IF r.err # Ok THEN DemoState(r.err, r.w, r.reg, r.os, d1)
       ELSE DemoShow(r, d1, p)

\* The loop of the batchCreateSprites click handler over the handles hs the
\* core hands out and the random positions ps
RECURSIVE DemoBatch(_, _, _)
DemoBatch(st, hs, ps) ==
    IF hs = <<>> \/ st.err # Ok THEN st
    ELSE DemoBatch(DemoCreateRect(st, Head(hs), Head(ps)), Tail(hs), Tail(ps))

\* Math.min(Math.max(1, parseInt(value) || 1), 1000) for a parsed value v
\* (0 stands for NaN as well)
BatchCount(v) ==
    LET n == IF v = 0 THEN 1 ELSE v
        m == IF n < 1 THEN 1 ELSE n
    IN IF m > 1000 THEN 1000 ELSE m

\* An upload that creates its sprite without advancing the counter
DemoCreateImageNoCount(st, h, in) ==
    LET r == EngineCreateSprite(st.w, st.reg, st.os, h, in[3], in[1], in[2],
                                <<128, 128, 128, 255>>)
    IN IF r.err # Ok THEN DemoState(r.err, r.w, r.reg, r.os, st.d)
       ELSE DemoShow(r, st.d, <<0, 0>>)

\* The rest of the imageInput change handler after the image has loaded:
\* createSprite, then the counter, then the common tail at position (0,0)
DemoCreateImage(st, h, in) ==
    LET r == EngineCreateSprite(st.w, st.reg, st.os, h, in[3], in[1], in[2],
                                <<128, 128, 128, 255>>)
    IN IF r.err # Ok THEN DemoState(r.err, r.w, r.reg, r.os, st.d)
       ELSE DemoShow(r, [st.d EXCEPT !.spriteCount = @ + 1], <<0, 0>>)

\* A finally block that leaves the button as the try block set it
DemoUploadFinallyKeepDisabled(d) ==
    [d EXCEPT !.inputValue = "", !.loading = FALSE]

\* The finally block of the imageInput change handler
DemoUploadFinally(d) ==
    [d EXCEPT !.uploadText = UploadLabel,
              !.uploadDisabled = FALSE,
              !.inputValue = "",
              !.loading = FALSE]

\* removeSprite of main.ts for a key of the page's map
DemoRemove(st, h) ==
    LET r == EngineRemoveSprite(st.w, st.reg, st.os[st.d.sprites[h]])
    IN IF r.err # Ok THEN DemoState(r.err, r.w, r.reg, st.os, st.d)
       ELSE DemoState(Ok, r.w, r.reg, st.os,
                      [st.d EXCEPT !.sprites[h] = NoObj, !.cards = @ \ {h}])

\* The loop of clearAllSprites over the entries hs of the page's map: each
\* sprite is removed from the Engine and its card from the list
RECURSIVE DemoClearLoop(_, _)
DemoClearLoop(st, hs) ==
    IF hs = <<>> \/ st.err # Ok THEN st
    ELSE LET r == EngineRemoveSprite(st.w, st.reg, st.os[st.d.sprites[Head(hs)]])
         IN DemoClearLoop(
                IF r.err # Ok THEN DemoState(r.err, r.w, r.reg, st.os, st.d)
                ELSE DemoState(Ok, r.w, r.reg, st.os,
                               [st.d EXCEPT !.cards = @ \ {Head(hs)}]),
                Tail(hs))

\* A clearAllSprites without the final sprites.clear()
DemoClearAllKeepMap(st, hs) ==
    LET r == DemoClearLoop(st, hs)
    IN IF r.err # Ok THEN r ELSE [r EXCEPT !.d.cleared = TRUE]

\* clearAllSprites: the loop, then sprites.clear()
DemoClearAll(st, hs) ==
    LET r == DemoClearLoop(st, hs)
    IN IF r.err # Ok THEN r
       ELSE [r EXCEPT !.d.sprites = [h \in Handles |-> NoObj], !.d.cleared = TRUE]

\* The perfToggle click handler: perfEnabled is read from the class list
\* before the class is toggled
DemoPerfToggle(d) ==
    LET d1 == [d EXCEPT !.perfEnabled = ~d.collapsed]
        d2 == [d1 EXCEPT !.collapsed = ~d1.collapsed]
    IN [d2 EXCEPT !.toggleText = IF d2.collapsed THEN "+" ELSE "-"]

----------------------------------------------------------------------------
(* Actions: one call of a caller that holds the Sprite objects `Held` *)

Init ==
    /\ world = NewWorld(InitDims[1], InitDims[2])
    /\ sprites = [h \in Handles |-> NoObj]
    /\ imageData = CreateImageData(InitDims[1], InitDims[2])
    /\ objs = <<>>
    /\ last = [op |-> "create", obj |-> NoObj, err |-> Ok, inScene |-> FALSE,
               args |-> <<>>, calls |-> <<>>]
    /\ removedH = {}
    /\ aliased = [h \in Handles |-> FALSE]
    /\ bgSet = <<>>
    /\ samplingSet = ""
    /\ lastOrder = <<>>
    /\ lastRead = NoRead
    /\ demo = NewDemo

\* The effect of a creating call with arguments in and result r
Created(op, h, in, r) ==
    /\ Len(objs) < MaxObjs
    /\ r.err = Ok => h \in FreeHandles(world)
    /\ r.err # Ok => h = 0
    /\ world' = r.w
    /\ sprites' = r.reg
    /\ objs' = r.os
    /\ last' = [op |-> op, obj |-> IF r.err = Ok THEN Len(r.os) ELSE NoObj, err |-> r.err,
                inScene |-> FALSE, args |-> in, calls |-> <<>>]
    /\ removedH' = IF r.err = Ok THEN removedH \ {h} ELSE removedH
    /\ aliased' = IF r.err = Ok THEN [aliased EXCEPT ![h] = FALSE] ELSE aliased
    /\ UNCHANGED <<demo, imageData, bgSet, samplingSet, lastOrder, lastRead>>

CreateSprite(h, in, color) ==
    Created("createSprite", h, in,
            EngineCreateSprite(world, sprites, objs, h, in[3], in[1], in[2], color))

CreateRectSprite(h, in, color) ==
    Created("createRectSprite", h, in,
            EngineCreateRectSprite(world, sprites, objs, h, in[1], in[2], color))

RemoveSprite(o) ==
    LET r == EngineRemoveSprite(world, sprites, objs[o])
    IN /\ world' = r.w
       /\ sprites' = r.reg
       /\ last' = Call("removeSprite", o, r.err)
       /\ removedH' = IF r.err = Ok THEN removedH \cup {objs[o].id} ELSE removedH
       /\ UNCHANGED <<demo, imageData, objs, aliased, bgSet, samplingSet, lastOrder, lastRead>>

\* The effect of a call through Sprite object o that leaves [err, w] and
\* touches no host state
SceneCall(op, o, r) ==
    /\ world' = r.w
    /\ last' = Call(op, o, r.err)
    /\ UNCHANGED <<demo, sprites, imageData, objs, removedH, aliased, bgSet, samplingSet, lastOrder, lastRead>>

AddToScene(o) == SceneCall("addToScene", o, EngineAddToScene(world, objs[o]))

RemoveFromScene(o) == SceneCall("removeFromScene", o, EngineRemoveFromScene(world, objs[o]))

\* The effect of a call through Sprite object o that leaves [err, w, s]
SpriteCall(op, o, r) ==
    /\ world' = r.w
    /\ objs' = [objs EXCEPT ![o] = r.s]
    /\ last' = [Call(op, o, r.err) EXCEPT !.calls = r.calls]
    /\ aliased' = IF r.w.slots # world.slots /\ sprites[objs[o].id] # o
                  THEN [aliased EXCEPT ![objs[o].id] = TRUE]
                  ELSE aliased
    /\ UNCHANGED <<demo, sprites, imageData, removedH, bgSet, samplingSet, lastOrder, lastRead>>

SetSpriteZIndex(o, z) ==
    SpriteCall("setSpriteZIndex", o, EngineSetSpriteZIndex(world, objs[o], z))

ResetSpriteTransform(o) ==
    SpriteCall("resetSpriteTransform", o, EngineResetSpriteTransform(world, objs[o]))

Translate(o, d) ==
    /\ VecAdd(objs[o].position, d) \in PosValues
    /\ SpriteCall("translate", o, SpriteTranslate(world, objs[o], d))

SetPosition(o, p) ==
    SpriteCall("setPosition", o, SpriteSetPosition(world, objs[o], p))

Rotate(o, angle) ==
    /\ objs[o].rotation + angle \in RotValues
    /\ SpriteCall("rotate", o, SpriteRotate(world, objs[o], angle))

SetRotation(o, angle) ==
    SpriteCall("setRotation", o, SpriteSetRotation(world, objs[o], angle))

SetScale(o, sc) ==
    SpriteCall("setScale", o, SpriteSetScale(world, objs[o], sc))

ScaleBy(o, f) ==
    /\ VecMul(objs[o].scale, f) \in ScaleValues
    /\ SpriteCall("scaleBy", o, SpriteScaleBy(world, objs[o], f))

SetZIndex(o, z) ==
    SpriteCall("setZIndex", o, SpriteSetZIndex(world, objs[o], z))

ResetTransform(o) ==
    SpriteCall("resetTransform", o, SpriteResetTransform(world, objs[o]))

SetBackgroundColor(c) ==
    LET r == EngineSetBackgroundColor(world, c)
    IN /\ world' = r.w
       /\ bgSet' = c
       /\ last' = Call("setBackgroundColor", NoObj, r.err)
       /\ UNCHANGED <<demo, sprites, imageData, objs, removedH, aliased, samplingSet,
                      lastOrder, lastRead>>

SetSamplingMethod(m) ==
    LET r == EngineSetSamplingMethod(world, m)
    IN /\ world' = r.w
       /\ samplingSet' = m
       /\ last' = Call("setSamplingMethod", NoObj, r.err)
       /\ UNCHANGED <<demo, sprites, imageData, objs, removedH, aliased, bgSet,
                      lastOrder, lastRead>>

Resize(d, ptr) ==
    LET r == EngineResize(world, imageData, d[1], d[2], ptr)
    IN /\ r.err # Ok => ptr = world.ptr
       /\ world' = r.w
       /\ imageData' = r.img
       /\ last' = [Call("resize", NoObj, r.err) EXCEPT !.args = d]
       /\ UNCHANGED <<demo, sprites, objs, removedH, aliased, bgSet, samplingSet, lastOrder, lastRead>>

Rendered(op, r, count) ==
    /\ world' = r.w
    /\ imageData' = r.img
    /\ lastOrder' = r.order
    /\ lastRead' = [ptr |-> r.read.ptr, len |-> r.read.len, fresh |-> r.read.fresh,
                    spriteCount |-> count]
    /\ last' = Call(op, NoObj, r.err)
    /\ UNCHANGED <<demo, sprites, objs, removedH, aliased, bgSet, samplingSet>>

Render == Rendered("render", EngineRender(world, imageData), -1)

RenderWithTiming ==
    Rendered("renderWithTiming", EngineRender(world, imageData), RegistrySize(sprites))

\* Sprite lifecycle and the dirty-sync protocol
Next ==
    \/ \E h \in Handles, in \in PixelInputs : CreateSprite(h, in, Red)
    \/ \E h \in Handles, in \in RectInputs : CreateRectSprite(h, in, Red)
    \/ \E o \in Held : RemoveSprite(o)
    \/ \E o \in Held : AddToScene(o)
    \/ \E o \in Held : RemoveFromScene(o)
    \/ \E o \in Held, z \in ZValues : SetSpriteZIndex(o, z)
    \/ \E o \in Held : ResetSpriteTransform(o)
    \/ \E o \in Held, d \in TranslateSteps : Translate(o, d)
    \/ \E o \in Held, p \in PosValues : SetPosition(o, p)
    \/ \E o \in Held, a \in RotateSteps : Rotate(o, a)
    \/ \E o \in Held, a \in RotValues : SetRotation(o, a)
    \/ \E o \in Held, sc \in ScaleValues : SetScale(o, sc)
    \/ \E o \in Held, f \in ScaleFactors : ScaleBy(o, f)
    \/ \E o \in Held, z \in ZValues : SetZIndex(o, z)
    \/ \E o \in Held : ResetTransform(o)
    \/ \E d \in BadDims : Resize(d, world.ptr)

Spec == Init /\ [][Next]_vars

\* Scene membership and compositing order
NextScene ==
    \/ \E h \in Handles, in \in RectInputs : CreateRectSprite(h, in, Red)
    \/ \E o \in Held : RemoveSprite(o)
    \/ \E o \in Held : AddToScene(o)
    \/ \E o \in Held : RemoveFromScene(o)
    \/ \E o \in Held, z \in ZValues : SetSpriteZIndex(o, z)
    \/ \E o \in Held, z \in ZValues : SetZIndex(o, z)
    \/ Render

SpecScene == Init /\ [][NextScene]_vars

\* Frame buffer and presentation
NextFrame ==
    \/ \E h \in Handles, in \in RectInputs : CreateRectSprite(h, in, Red)
    \/ \E o \in Held : AddToScene(o)
    \/ \E o \in Held, p \in FramePos : SetPosition(o, p)
    \/ \E c \in BgColors : SetBackgroundColor(c)
    \/ \E d \in ResizeDims, ptr \in Ptrs : Resize(d, ptr)
    \/ Render
    \/ RenderWithTiming

SpecFrame == Init /\ [][NextFrame]_vars

\* Compositing of overlapping sprites of two colours
PixelSizes == {<<1, 1>>, <<2, 1>>}

NextPixels ==
    \/ \E h \in Handles, in \in PixelSizes, c \in {Red, Green} : CreateRectSprite(h, in, c)
    \/ \E o \in Held : AddToScene(o)
    \/ \E o \in Held, z \in ZValues : SetZIndex(o, z)
    \/ \E m \in SeqRange(MethodNames) : SetSamplingMethod(m)
    \/ Render

SpecPixels == Init /\ [][NextPixels]_vars

\* Sampling of moved and scaled sprites under the three methods
NextSampler ==
    \/ \E h \in Handles, in \in PixelSizes : CreateRectSprite(h, in, Red)
    \/ \E o \in Held : AddToScene(o)
    \/ \E o \in Held, p \in PosValues : SetPosition(o, p)
    \/ \E o \in Held, sc \in ScaleValues : SetScale(o, sc)
    \/ \E m \in SeqRange(MethodNames) : SetSamplingMethod(m)
    \/ Render

SpecSampler == Init /\ [][NextSampler]_vars

\* Engine-wide settings among the other calls (a resize here keeps the
\* buffer's address)
NextSettings ==
    \/ \E h \in Handles : CreateRectSprite(h, <<1, 1>>, Red)
    \/ \E o \in Held : AddToScene(o)
    \/ \E o \in Held, sc \in ScaleValues : SetScale(o, sc)
    \/ \E m \in SeqRange(MethodNames) : SetSamplingMethod(m)
    \/ SetBackgroundColor(<<20, 30, 48, 255>>)
    \/ \E d \in GoodDims : Resize(d, world.ptr)
    \/ Render

SpecSettings == Init /\ [][NextSettings]_vars

\* Transform setters, z-index setters and render passes
NextMatrix ==
    \/ \E h \in Handles : CreateRectSprite(h, <<1, 1>>, Red)
    \/ \E o \in Held : AddToScene(o)
    \/ \E o \in Held, a \in RotValues : SetRotation(o, a)
    \/ \E o \in Held, z \in ZValues : SetSpriteZIndex(o, z)
    \/ \E o \in Held, z \in ZValues : SetZIndex(o, z)
    \/ \E o \in Held : ResetSpriteTransform(o)
    \/ Render

SpecMatrix == Init /\ [][NextMatrix]_vars

----------------------------------------------------------------------------
(* Actions of the demo page: one event handler each *)

\* width, height and pixel array length of a loaded image; the second is an
\* image whose pixel array createSprite rejects
UploadInputs == {<<1, 1, 4>>, <<1, 1, 8>>}
FileTypes == {"image/png", "text/plain"}
BatchValues == {0, 1, 2}
\* the random offsets of the create handlers, rounded
DemoOffsets == {<<1, 0>>}

DemoNow == DemoState(Ok, world, sprites, objs, demo)

\* Sequences of n distinct elements of S
Arrangements(S, n) ==
    {q \in [1 .. n -> S] : \A i, j \in 1 .. n : q[i] = q[j] => i = j}

\* The keys of the page's map in insertion order
RECURSIVE KeysInOrder(_, _)
KeysInOrder(m, ks) ==
    IF ks = {} THEN <<>>
    ELSE LET h == CHOOSE k \in ks : \A g \in ks : m[k] <= m[g]
         IN <<h>> \o KeysInOrder(m, ks \ {h})

DemoKeys(d) == {h \in Handles : d.sprites[h] # NoObj}

\* The effect of a handler that ends in state r with the page d
DemoStep(op, r, d) ==
    /\ world' = r.w
    /\ sprites' = r.reg
    /\ objs' = r.os
    /\ demo' = d
    /\ last' = [op |-> op, obj |-> NoObj, err |-> r.err, inScene |-> FALSE,
                args |-> <<>>, calls |-> <<>>]
    /\ removedH' = (removedH \cup {h \in Handles : Live(world, h) /\ ~Live(r.w, h)})
                        \ {h \in Handles : Live(r.w, h)}
    /\ aliased' = [h \in Handles |->
                     IF ~Live(world, h) /\ Live(r.w, h) THEN FALSE ELSE aliased[h]]
    /\ UNCHANGED <<imageData, bgSet, samplingSet, lastOrder, lastRead>>

\* click on createSprite
DemoCreateSpriteClick(h, p) ==
    /\ Len(objs) < MaxObjs
    /\ h \in FreeHandles(world)
    /\ LET r == DemoCreateRect(DemoNow, h, p)
       IN DemoStep("createSpriteClick", r, r.d)

\* click on batchCreateSprites with the parsed value v of batchCount
DemoBatchCreateClick(v, hs, ps) ==
    /\ Len(hs) = BatchCount(v)
    /\ Len(objs) + Len(hs) <= MaxObjs
    /\ LET r == DemoBatch(DemoNow, hs, ps)
       IN DemoStep("batchCreateClick", r, r.d)

\* click on the delete button of the card of handle h
DemoCardDelete(h) ==
    /\ h \in demo.cards
    /\ demo.sprites[h] # NoObj
    /\ LET r == DemoRemove(DemoNow, h)
       IN DemoStep("cardDeleteClick", r, r.d)

\* click on clearAllSprites, confirmed
DemoClearAllClick ==
    /\ DemoKeys(demo) # {}
    /\ LET r == DemoClearAll(DemoNow, KeysInOrder(demo.sprites, DemoKeys(demo)))
       IN DemoStep("clearAllClick", r, r.d)

\* change of imageInput to a file of the given type: a file of another type
\* is rejected before the handler yields, an image starts loading
DemoImageChange(type) ==
    /\ ~demo.uploadDisabled
    /\ ~demo.loading
    /\ IF type \in {"image/jpeg", "image/png"}
       THEN DemoStep("imageChange", DemoNow,
                     [demo EXCEPT !.uploadText = LoadingLabel,
                                  !.uploadDisabled = TRUE,
                                  !.inputValue = "file",
                                  !.loading = TRUE])
       ELSE DemoStep("imageRejected", [DemoNow EXCEPT !.err = "Error"],
                     DemoUploadFinally(demo))

\* the image has loaded: the handler resumes, creates the sprite and runs
\* its finally block
DemoImageLoaded(h, in) ==
    /\ demo.loading
    /\ Len(objs) < MaxObjs
    /\ LET r == DemoCreateImage(DemoNow, h, in)
       IN /\ r.err = Ok => h \in FreeHandles(world)
          /\ r.err # Ok => h = 0
          /\ DemoStep("imageLoaded", r, DemoUploadFinally(r.d))

\* the image has failed to load (or no 2d context): the handler resumes in
\* its catch block and runs its finally block
DemoImageError ==
    /\ demo.loading
    /\ DemoStep("imageError", [DemoNow EXCEPT !.err = "Error"], DemoUploadFinally(demo))

\* click on perfToggle
DemoPerfToggleClick ==
    DemoStep("perfToggleClick", DemoNow, DemoPerfToggle(demo))

\* one frame of gameLoop with no animation running: renderWithTiming and
\* every PERF_UPDATE_INTERVAL-th frame the display, or a plain render
DemoGameLoop ==
    LET r == EngineRender(world, imageData)
        count == RegistrySize(sprites)
        n == demo.perfUpdateCounter + 1
    IN /\ world' = r.w
       /\ imageData' = r.img
       /\ lastOrder' = r.order
       /\ lastRead' = [ptr |-> r.read.ptr, len |-> r.read.len, fresh |-> r.read.fresh,
                       spriteCount |-> IF demo.perfEnabled THEN count ELSE -1]
       /\ last' = Call(IF demo.perfEnabled THEN "renderWithTiming" ELSE "render",
                       NoObj, r.err)
       /\ demo' = IF ~demo.perfEnabled THEN demo
                  ELSE IF n >= PERF_UPDATE_INTERVAL
                  THEN [demo EXCEPT !.perfUpdateCounter = 0, !.perfSprites = count]
                  ELSE [demo EXCEPT !.perfUpdateCounter = n]
       /\ UNCHANGED <<sprites, objs, removedH, aliased, bgSet, samplingSet>>

DemoImageSettles ==
    \/ DemoImageError
    \/ \E h \in Handles, in \in UploadInputs : DemoImageLoaded(h, in)

NextDemo ==
    \/ \E h \in Handles, p \in DemoOffsets : DemoCreateSpriteClick(h, p)
    \/ \E v \in BatchValues :
          \E hs \in Arrangements(FreeHandles(world), BatchCount(v)) :
             \E ps \in [1 .. BatchCount(v) -> DemoOffsets] : DemoBatchCreateClick(v, hs, ps)
    \/ \E h \in Handles : DemoCardDelete(h)
    \/ DemoClearAllClick
    \/ \E type \in FileTypes : DemoImageChange(type)
    \/ \E h \in Handles, in \in UploadInputs : DemoImageLoaded(h, in)
    \/ DemoImageError
    \/ DemoGameLoop

SpecDemo == Init /\ [][NextDemo]_vars

\* The upload handler beside the single-create, delete and clear-all buttons
NextUpload ==
    \/ \E h \in Handles, p \in DemoOffsets : DemoCreateSpriteClick(h, p)
    \/ \E h \in Handles : DemoCardDelete(h)
    \/ DemoClearAllClick
    \/ \E type \in FileTypes : DemoImageChange(type)
    \/ \E h \in Handles, in \in UploadInputs : DemoImageLoaded(h, in)
    \/ DemoImageError

\* The browser settles every image load: onload or onerror fires
SpecUpload == Init /\ [][NextUpload]_vars /\ WF_vars(DemoImageSettles)

\* The performance panel and the render loop
NextPerf ==
    \/ \E h \in Handles, p \in DemoOffsets : DemoCreateSpriteClick(h, p)
    \/ \E h \in Handles : DemoCardDelete(h)
    \/ DemoPerfToggleClick
    \/ DemoGameLoop

SpecPerf == Init /\ [][NextPerf]_vars

----------------------------------------------------------------------------
(* Properties *)

CreateOps == {"create", "createSprite", "createRectSprite"}

\* The calls that name a sprite handle and must reach a live sprite
HandleOps ==
    {"removeSprite", "addToScene", "setSpriteZIndex", "resetSpriteTransform",
     "translate", "setPosition", "rotate", "setRotation", "setScale", "scaleBy",
     "setZIndex", "resetTransform"}

\* Sprite object o is the one the Engine has registered for its handle
Registered(o) == sprites[objs[o].id] = o

\* C1: a call that names a handle removed by a successful removeSprite and
\* not recycled since (a setter through the Sprite object, setSpriteZIndex,
\* resetSpriteTransform, addToScene, a second removeSprite) fails with
\* InvalidHandle.
C1_RemovedHandleFails ==
    [][(last'.op \in HandleOps /\ objs[last'.obj].id \in removedH)
         => last'.err = InvalidHandle]_vars

\* A second removeSprite of the same handle has failed with InvalidHandle.
C1_Witness ==
    /\ last.op = "removeSprite"
    /\ last.err = InvalidHandle
    /\ objs[last.obj].id \in removedH

\* C2: a call through a Sprite object that is no longer the registered one
\* of its handle (its sprite was removed) changes no sprite of the core and
\* no scene membership.
C2_RemovedHandleNeverAliases ==
    [][(last'.op \in HandleOps /\ ~Registered(last'.obj))
         => (world'.slots = world.slots /\ world'.scene = world.scene)]_vars

\* C3: a call that fails leaves the core (live sprites, their transforms and
\* z-indices, the scene, the frame buffer), the registry, the ImageData and
\* the Sprite object of every live sprite as they were; a failed create
\* constructs no Sprite.
C3_FailureLeavesState ==
    [][last'.err # Ok
         => /\ world' = world
            /\ sprites' = sprites
            /\ imageData' = imageData
            /\ Len(objs') = Len(objs)
            /\ \A o \in Held : Registered(o) => objs'[o] = objs[o]]_vars

\* A createSprite has failed with BufferSizeMismatch beside a live sprite.
C3_Witness ==
    /\ last.op = "createSprite"
    /\ last.err = BufferSizeMismatch
    /\ \E h \in Handles : Live(world, h)

NoDuplicates(q) == \A i, j \in 1 .. Len(q) : q[i] = q[j] => i = j

\* z-index ascending, ties by ascending handle, stated position by position
InCompositingOrder(q, slots) ==
    \A i, j \in 1 .. Len(q) :
        i < j => \/ slots[q[i]].zindex < slots[q[j]].zindex
                 \/ slots[q[i]].zindex = slots[q[j]].zindex /\ q[i] < q[j]

\* C4: the order a render pass composites in is the visible set, each live
\* handle once, ascending by current z-index with ties by ascending handle.
C4_RenderOrder ==
    last.op \in RenderOps
        => /\ NoDuplicates(lastOrder)
           /\ SeqRange(lastOrder) = SeqRange(world.scene)
           /\ \A h \in SeqRange(lastOrder) : Live(world, h)
           /\ InCompositingOrder(lastOrder, world.slots)

\* A render has composited handle 1 before handle 0.
C4_Witness ==
    /\ last.op = "render"
    /\ lastOrder = <<1, 0>>

Occurrences(q, h) == Cardinality({i \in 1 .. Len(q) : q[i] = h})

\* C5: addToScene of a handle already in the scene and removeFromScene of a
\* handle not in the scene succeed and change neither the sprites nor the
\* scene; after an addToScene the handle is in the scene exactly once.
C5_SceneIdempotent ==
    [][/\ ( \/ last'.op = "addToScene" /\ last'.inScene
            \/ last'.op = "removeFromScene" /\ ~last'.inScene )
          => /\ last'.err = Ok
             /\ world'.scene = world.scene
             /\ world'.slots = world.slots
       /\ (last'.op = "addToScene" /\ last'.err = Ok)
          => Occurrences(world'.scene, objs[last'.obj].id) = 1]_vars

\* addToScene has been called for a sprite that was in the scene already.
C5_Witness ==
    /\ last.op = "addToScene"
    /\ last.inScene
    /\ Len(world.scene) = 2

\* C6: for every live sprite the Engine created, written only through its
\* own Sprite object, the core's position, rotation, scale and z-index equal
\* the Sprite's fields, getSpriteZIndex returns sprite.zindex and the
\* transform-dirty flag is clear.
C6_HostMirrorsCore ==
    \A h \in Handles :
        (sprites[h] # NoObj /\ ~aliased[h])
            => LET s == objs[sprites[h]]
               IN /\ Live(world, h)
                  /\ s.id = h
                  /\ world.slots[h].position = s.position
                  /\ world.slots[h].rotation = s.rotation
                  /\ world.slots[h].scale = s.scale
                  /\ world.slots[h].zindex = s.zindex
                  /\ EngineGetSpriteZIndex(world, s) = s.zindex
                  /\ ~s.transformDirty

\* A live sprite has been moved, rotated, scaled and raised.
C6_Witness ==
    \E h \in Handles :
        /\ sprites[h] # NoObj
        /\ ~aliased[h]
        /\ objs[sprites[h]].position = <<1, 0>>
        /\ objs[sprites[h]].rotation = 1
        /\ objs[sprites[h]].scale = <<2, 2>>
        /\ objs[sprites[h]].zindex = 1

\* C7: the frame buffer is width * height * 4 bytes long for the current
\* dimensions, the Engine's ImageData has the same dimensions and byte
\* length, and a render's copy fits both.
C7_BufferSizes ==
    /\ WSceneDataLen(world) = world.width * world.height * 4
    /\ imageData.width = world.width
    /\ imageData.height = world.height
    /\ 4 * Len(imageData.data) = WSceneDataLen(world)
    /\ last.op \in RenderOps
        => (last.err = Ok /\ lastRead.len <= 4 * Len(imageData.data))

\* A render has run after a resize to 1 x 1.
C7_Witness ==
    /\ last.op \in RenderOps
    /\ world.width = 1
    /\ world.height = 1

\* C8: each frame-buffer read of render and renderWithTiming uses the
\* address and length the buffer has after the latest resize.
C8_FreshPointer ==
    last.op \in RenderOps
        => /\ lastRead.ptr = WSceneDataPtr(world)
           /\ lastRead.len = WSceneDataLen(world)

\* A render has read the buffer after a resize that moved it.
C8_Witness ==
    /\ last.op \in RenderOps
    /\ world.ptr # 0
    /\ lastRead.ptr = world.ptr

\* C9: only a render makes the buffer current, and the Engine reads the
\* buffer only in that state, straight after the render pass of the same
\* call.
C9_ReadOnlyCurrent ==
    [][/\ (world.fresh # "current" /\ world'.fresh = "current")
          => last'.op \in RenderOps
       /\ last'.op \in RenderOps
          => (lastRead'.fresh = "current" /\ world'.fresh = "current")
       /\ last'.op \notin RenderOps => lastRead' = lastRead]_vars

\* A render has read the buffer after the scene was changed.
C9_Witness ==
    /\ last.op \in RenderOps
    /\ lastRead.fresh = "current"
    /\ Len(world.scene) > 0

\* The sprite in slot s reaches no pixel of a buffer of the given size: its
\* centre is farther from the buffer than its scaled extent.
OffBuffer(s, width, height) ==
    LET reach == s.width * s.scale[1] + s.height * s.scale[2]
    IN \/ s.position[1] - reach >= width
       \/ s.position[1] + reach < 0
       \/ s.position[2] - reach >= height
       \/ s.position[2] + reach < 0

\* C10: after a render, every pixel that no visible sprite covers holds the
\* background colour of the latest setBackgroundColor, in the frame buffer
\* and in the ImageData; with no visible sprite, or all of them off the
\* buffer, that is every pixel.
C10_BackgroundCleared ==
    (last.op \in RenderOps /\ bgSet # <<>>)
        => /\ last.err = Ok
           /\ Len(world.data) = world.width * world.height
           /\ \A i \in 1 .. Len(world.data) :
                ( \/ \A h \in SeqRange(world.scene) :
                        OffBuffer(world.slots[h], world.width, world.height)
                  \/ \A h \in SeqRange(world.scene) :
                        ~Covers(world.slots[h], PixelX(world, i), PixelY(world, i)) )
                => (world.data[i] = bgSet /\ imageData.data[i] = bgSet)

\* A render has drawn a frame of background only although a sprite is in
\* the scene, off the buffer.
C10_Witness ==
    /\ last.op \in RenderOps
    /\ bgSet = <<20, 30, 48, 255>>
    /\ Len(world.scene) > 0
    /\ \A h \in SeqRange(world.scene) :
            OffBuffer(world.slots[h], world.width, world.height)
    /\ \A i \in 1 .. Len(imageData.data) : imageData.data[i] = bgSet

\* The core sprites of Sprite objects a and b occupy the same rectangle
FullyOverlapping(a, b) ==
    LET sa == world.slots[objs[a].id]
        sb == world.slots[objs[b].id]
    IN /\ sa.position = sb.position
       /\ sa.rotation = sb.rotation
       /\ sa.scale = sb.scale
       /\ sa.width = sb.width
       /\ sa.height = sb.height

\* The sprite of object o covers pixel i of the frame with full coverage
FullyCovered(o, i) ==
    LET s == world.slots[objs[o].id]
    IN /\ s.color[4] = 255
       /\ Sample(s, world.method, PixelX(world, i), PixelY(world, i)) = s.color

\* No sprite of the scene other than those of objects a and b contributes
\* to pixel i
NoThirdSprite(a, b, i) ==
    \A g \in SeqRange(world.scene) \ {objs[a].id, objs[b].id} :
        Sample(world.slots[g], world.method, PixelX(world, i), PixelY(world, i))[4] = 0

\* C11: after a render, of two fully overlapping opaque sprites in the scene
\* the one whose Sprite has the higher z-index shows in every pixel it
\* covers and no further sprite reaches, in the frame buffer and in the
\* ImageData; whichever of the two was given the higher z-index, so
\* exchanging the z-indices exchanges the visible sprite.
C11_HigherZVisible ==
    last.op \in RenderOps
        => \A a, b \in Held :
             ( /\ Registered(a) /\ Registered(b)
               /\ objs[a].id \in SeqRange(world.scene)
               /\ objs[b].id \in SeqRange(world.scene)
               /\ FullyOverlapping(a, b)
               /\ objs[a].zindex < objs[b].zindex )
             => \A i \in 1 .. Len(world.data) :
                  (FullyCovered(b, i) /\ NoThirdSprite(a, b, i))
                      => /\ world.data[i] = world.slots[objs[b].id].color
                         /\ imageData.data[i] = world.slots[objs[b].id].color

\* A render has shown the sprite of the lower handle, raised above a
\* sprite of another colour that would hide it at equal z-indices.
C11_Witness ==
    /\ last.op \in RenderOps
    /\ \E a, b \in Held :
          /\ objs[a].id < objs[b].id
          /\ objs[a].id \in SeqRange(world.scene)
          /\ objs[b].id \in SeqRange(world.scene)
          /\ FullyOverlapping(a, b)
          /\ objs[b].zindex < objs[a].zindex
          /\ world.slots[objs[a].id].color # world.slots[objs[b].id].color
          /\ \E i \in 1 .. Len(world.data) :
                FullyCovered(a, i) /\ imageData.data[i] = world.slots[objs[a].id].color

\* Pixel (x, y) lies in the rectangle of the given size whose centre is
\* the position: the destination of an unrotated, unscaled sprite
InFootprint(position, width, height, x, y) ==
    /\ 0 <= 2 * (x - position[1]) + width
    /\ 2 * (x - position[1]) + width < 2 * width
    /\ 0 <= 2 * (y - position[2]) + height
    /\ 2 * (y - position[2]) + height < 2 * height

\* No sprite of the scene other than handle h reaches pixel i
NotCoveredByOther(h, i) ==
    \A g \in SeqRange(world.scene) \ {h} :
        ~Covers(world.slots[g], PixelX(world, i), PixelY(world, i))

\* C12: after a render under nearest sampling, every frame pixel inside the
\* footprint of a sprite of the scene whose Sprite has rotation 0 and scale
\* (1,1), and which no other sprite covers, holds the sprite's (opaque)
\* source pixel unchanged, at the place the Sprite's position gives.
C12_NearestByteExact ==
    (last.op \in RenderOps /\ EngineGetSamplingMethod(world) = "nearest")
        => \A o \in Held :
             ( /\ Registered(o)
               /\ objs[o].id \in SeqRange(world.scene)
               /\ objs[o].rotation = 0
               /\ objs[o].scale = <<1, 1>>
               /\ world.slots[objs[o].id].color[4] = 255 )
             => LET s == world.slots[objs[o].id]
                IN \A i \in 1 .. Len(world.data) :
                     ( /\ InFootprint(objs[o].position, s.width, s.height,
                                      PixelX(world, i), PixelY(world, i))
                       /\ NotCoveredByOther(objs[o].id, i) )
                     => /\ world.data[i] = s.color
                        /\ imageData.data[i] = s.color

\* A render under nearest sampling has drawn a 1 x 1 sprite moved to (1,0)
\* in the second pixel of the frame and left the first to the background.
C12_Witness ==
    /\ last.op \in RenderOps
    /\ samplingSet = "nearest"
    /\ \E o \in Held :
          /\ world.scene = <<objs[o].id>>
          /\ objs[o].position = <<1, 0>>
          /\ world.slots[objs[o].id].width = 1
          /\ imageData.data[2] = world.slots[objs[o].id].color
          /\ imageData.data[1] = world.bg

\* Destination pixels around and inside the frame, for the sampler alone
WindowX == -2 .. 3
WindowY == 0 .. 1

\* C13: under each of the three sampling methods, the sample of a live
\* sprite at a destination pixel that maps outside [0,width) x [0,height)
\* is fully transparent, and after a render every frame pixel that maps
\* outside the rectangle of every sprite of the scene holds the background
\* colour.
C13_OutsideIsTransparent ==
    /\ \A h \in Handles, m \in {Nearest, Bilinear, Supersampling},
          x \in WindowX, y \in WindowY :
            (Live(world, h) /\ ~Covers(world.slots[h], x, y))
                => Sample(world.slots[h], m, x, y) = Transparent
    /\ last.op \in RenderOps
         => \A i \in 1 .. Len(world.data) :
              (\A h \in SeqRange(world.scene) :
                   ~Covers(world.slots[h], PixelX(world, i), PixelY(world, i)))
                  => world.data[i] = world.bg

\* A render under bilinear sampling has drawn a 2 x 1 sprite centred at
\* (0,0), whose rectangle ends where the second pixel begins, into the
\* first pixel only.
C13_Witness ==
    /\ last.op \in RenderOps
    /\ samplingSet = "bilinear"
    /\ \E h \in Handles :
          /\ world.scene = <<h>>
          /\ world.slots[h].width = 2
          /\ world.slots[h].position = <<0, 0>>
          /\ world.data[1] = world.slots[h].color
          /\ world.data[2] = world.bg

\* The matrix a recomputation caches for the sprite in slot s
MatrixOf(s) == ForwardMatrix(s.position, s.rotation, s.scale)

\* The slot of a sprite created like s and moved to the position of s
FreshAt(s) ==
    LET w0 == [world EXCEPT !.slots = [h \in Handles |-> NewSlot(s.width, s.height, s.color)]]
    IN WSetSpritePosition(w0, 0, s.position).w.slots[0]

\* C14: a successful resetSpriteTransform of a live sprite through its own
\* Sprite object leaves rotation 0 and scale (1,1) on the Sprite and in the
\* core, leaves position and z-index of both as they were, and leaves the
\* core sprite with the matrix of a freshly created sprite moved to the same
\* position, also after a following applySpriteTransform(0, 1, 1).
C14_ResetTransform ==
    [][( /\ last'.op = "resetSpriteTransform"
         /\ last'.err = Ok
         /\ Registered(last'.obj)
         /\ ~aliased[objs[last'.obj].id] )
         => LET o  == last'.obj
                h  == objs[o].id
                s2 == world'.slots[h]
                s3 == WApplySpriteTransform(world', h, 0, <<1, 1>>).w.slots[h]
            IN /\ objs'[o].rotation = 0
               /\ objs'[o].scale = <<1, 1>>
               /\ s2.rotation = 0
               /\ s2.scale = <<1, 1>>
               /\ objs'[o].position = objs[o].position
               /\ objs'[o].zindex = objs[o].zindex
               /\ s2.position = world.slots[h].position
               /\ s2.zindex = world.slots[h].zindex
               /\ MatrixOf(s2) = MatrixOf(FreshAt(s2))
               /\ MatrixOf(s3) = MatrixOf(FreshAt(s2))]_vars

\* A resetSpriteTransform has succeeded on a sprite that had been moved and
\* raised, and has called apply_sprite_transform and reset_sprite_transform.
C14_Witness ==
    /\ last.op = "resetSpriteTransform"
    /\ last.err = Ok
    /\ Registered(last.obj)
    /\ ~aliased[objs[last.obj].id]
    /\ objs[last.obj].position = <<1, 0>>
    /\ objs[last.obj].zindex = 1
    /\ Len(last.calls) = 4

\* C15: a successful resize leaves the live sprites, each sprite's pixels,
\* position, rotation, scale and z-index, the scene, the background colour,
\* the sampling method, the registry and the Sprite objects as they were,
\* and replaces the frame buffer and the ImageData by ones of the new size.
C15_ResizeKeepsSprites ==
    [][(last'.op = "resize" /\ last'.err = Ok)
         => /\ world'.slots = world.slots
            /\ world'.scene = world.scene
            /\ world'.bg = world.bg
            /\ world'.method = world.method
            /\ EngineGetSamplingMethod(world') = EngineGetSamplingMethod(world)
            /\ sprites' = sprites
            /\ objs' = objs
            /\ world'.width = last'.args[1]
            /\ world'.height = last'.args[2]
            /\ Len(world'.data) = last'.args[1] * last'.args[2]
            /\ imageData'.width = last'.args[1]
            /\ imageData'.height = last'.args[2]]_vars

\* A resize to 1 x 1 has succeeded with a scaled sprite in the scene, a
\* background colour and a sampling method set.
C15_Witness ==
    /\ last.op = "resize"
    /\ last.err = Ok
    /\ last.args = <<1, 1>>
    /\ samplingSet = "bilinear"
    /\ bgSet = <<20, 30, 48, 255>>
    /\ \E h \in SeqRange(world.scene) : world.slots[h].scale = <<2, 2>>

\* C17: getSamplingMethod returns one of the three method names, and the
\* name of the latest setSamplingMethod call whatever calls followed it.
C17_SamplingMethodRoundTrip ==
    /\ EngineGetSamplingMethod(world) \in SeqRange(MethodNames)
    /\ samplingSet # "" => EngineGetSamplingMethod(world) = samplingSet

\* supersampling is the method last set, and sprites have been shown, the
\* background set and the frame resized and rendered.
C17_Witness ==
    /\ samplingSet = "supersampling"
    /\ EngineGetSamplingMethod(world) = "supersampling"
    /\ last.op \in RenderOps
    /\ bgSet # <<>>
    /\ Len(world.scene) = 2
    /\ world.width = 1

\* C16: a create call with width * height = 0 fails with InvalidDimensions;
\* a createSprite with positive dimensions and a pixel array of another
\* length than width * height * 4 fails with BufferSizeMismatch; a create
\* that succeeds returns the registered Sprite of a live sprite of the given
\* size with position (0,0), rotation 0, scale (1,1) and z-index 0 on the
\* Sprite and in the core, which is not in the scene.
C16_CreateValidates ==
    [][last'.op \in {"createSprite", "createRectSprite"}
         => LET in == last'.args
            IN /\ in[1] * in[2] = 0 => last'.err = InvalidDimensions
               /\ ( /\ last'.op = "createSprite"
                    /\ in[1] > 0 /\ in[2] > 0
                    /\ in[3] # in[1] * in[2] * 4 )
                  => last'.err = BufferSizeMismatch
               /\ last'.err = Ok
                  => LET o == last'.obj
                         h == objs'[o].id
                         s == world'.slots[h]
                     IN /\ o = Len(objs) + 1
                        /\ sprites'[h] = o
                        /\ ~Live(world, h)
                        /\ Live(world', h)
                        /\ s.width = in[1] /\ s.height = in[2]
                        /\ s.position = <<0, 0>> /\ s.rotation = 0
                        /\ s.scale = <<1, 1>> /\ s.zindex = 0
                        /\ objs'[o].position = <<0, 0>> /\ objs'[o].rotation = 0
                        /\ objs'[o].scale = <<1, 1>> /\ objs'[o].zindex = 0
                        /\ ~objs'[o].transformDirty
                        /\ h \notin SeqRange(world'.scene)]_vars

\* A createRectSprite has succeeded in the slot of a removed sprite whose
\* Sprite object had been moved, rotated and raised.
C16_Witness ==
    /\ last.op = "createRectSprite"
    /\ last.err = Ok
    /\ last.obj = 2
    /\ objs[1].id = objs[2].id
    /\ objs[1].position = <<1, 0>>
    /\ objs[1].rotation = 1
    /\ objs[1].zindex = 1

\* The mutators of the host Sprite object
MutatorOps ==
    {"translate", "setPosition", "rotate", "setRotation", "setScale", "scaleBy",
     "setZIndex", "resetTransform"}

\* C18: every mutator call on the registered Sprite of a live sprite calls
\* set_sprite_position and set_sprite_zindex, and calls
\* apply_sprite_transform only if the call changed the Sprite's rotation or
\* scale.
C18_ApplyOnlyWhenChanged ==
    [][( /\ last'.op \in MutatorOps
         /\ Registered(last'.obj)
         /\ ~aliased[objs[last'.obj].id] )
         => LET o == last'.obj
            IN /\ "set_sprite_position" \in SeqRange(last'.calls)
               /\ "set_sprite_zindex" \in SeqRange(last'.calls)
               /\ "apply_sprite_transform" \in SeqRange(last'.calls)
                    => \/ objs'[o].rotation # objs[o].rotation
                       \/ objs'[o].scale # objs[o].scale]_vars

\* The cached matrix of slot s is the matrix of its current values
CacheValid(s) == s.matrix = MatrixOf(s)

\* The core calls that set a position, a rotation or a scale
TransformCalls ==
    {"set_sprite_position", "apply_sprite_transform", "reset_sprite_transform"}

\* C19 as stated: for every live sprite the cached matrix is valid exactly
\* when the stale bit is clear; a call that sets position, rotation or
\* scale sets the stale bit; a z-index change alone
\* (Engine.setSpriteZIndex) leaves the stale bit and the cached matrix as
\* they were; after a render no sprite of the scene is stale.
C19_ValidIffNotStale ==
    [][/\ \A h \in Handles :
            Live(world', h) => (CacheValid(world'.slots[h]) <=> ~world'.slots[h].stale)
       /\ (last'.err = Ok /\ SeqRange(last'.calls) \cap TransformCalls # {})
            => world'.slots[objs[last'.obj].id].stale
       /\ (last'.err = Ok /\ last'.op = "setSpriteZIndex")
            => /\ world'.slots[objs[last'.obj].id].stale
                    = world.slots[objs[last'.obj].id].stale
               /\ world'.slots[objs[last'.obj].id].matrix
                    = world.slots[objs[last'.obj].id].matrix
       /\ last'.op \in RenderOps
            => \A h \in SeqRange(world'.scene) : ~world'.slots[h].stale]_vars

\* C19 as it holds: for every live sprite a clear stale bit implies a valid
\* cached matrix; every successful call that makes a core call setting
\* position, rotation or scale (each sync of a Sprite mutator, setZIndex
\* included, and resetSpriteTransform) sets the stale bit;
\* Engine.setSpriteZIndex leaves the stale bit and the cached matrix as they
\* were; after a render every sprite of the scene has a clear stale bit and
\* a valid cached matrix.
C19_NotStaleImpliesValid ==
    [][/\ \A h \in Handles :
            (Live(world', h) /\ ~world'.slots[h].stale) => CacheValid(world'.slots[h])
       /\ (last'.err = Ok /\ SeqRange(last'.calls) \cap TransformCalls # {})
            => world'.slots[objs[last'.obj].id].stale
       /\ (last'.err = Ok /\ last'.op = "setSpriteZIndex")
            => /\ world'.slots[objs[last'.obj].id].stale
                    = world.slots[objs[last'.obj].id].stale
               /\ world'.slots[objs[last'.obj].id].matrix
                    = world.slots[objs[last'.obj].id].matrix
       /\ last'.op \in RenderOps
            => \A h \in SeqRange(world'.scene) :
                 ~world'.slots[h].stale /\ CacheValid(world'.slots[h])]_vars

\* A render has recomputed the matrix of a rotated sprite of the scene,
\* while a sprite outside the scene stays stale with a matrix that is valid.
C19_Witness ==
    /\ last.op \in RenderOps
    /\ \E h \in SeqRange(world.scene) :
          /\ world.slots[h].rotation = 1
          /\ ~world.slots[h].stale
          /\ world.slots[h].matrix = <<0, -1, 1, 0, 0, 0>>
    /\ \E g \in Handles \ SeqRange(world.scene) :
          /\ Live(world, g)
          /\ world.slots[g].stale
          /\ CacheValid(world.slots[g])

\* C20: the scene holds live handles only, and so does the order of the
\* latest render pass; a handle removed by removeSprite while it was in the
\* scene is in the scene no longer; a handle enters the scene only by a
\* successful addToScene that names it, so a sprite created in a recycled
\* slot is outside the scene until then.
C20_SceneWithinLive ==
    [][/\ \A h \in SeqRange(world'.scene) : Live(world', h)
       /\ SeqRange(world'.scene) \cap removedH' = {}
       /\ last'.op \in RenderOps
            => \A h \in SeqRange(lastOrder') : Live(world', h) /\ h \notin removedH'
       /\ (last'.op = "removeSprite" /\ last'.err = Ok)
            => objs[last'.obj].id \notin SeqRange(world'.scene)
       /\ (last'.op \in {"createSprite", "createRectSprite"} /\ last'.err = Ok)
            => objs'[last'.obj].id \notin SeqRange(world'.scene)
       /\ \A h \in SeqRange(world'.scene) \ SeqRange(world.scene) :
            /\ last'.op = "addToScene"
            /\ last'.err = Ok
            /\ objs[last'.obj].id = h]_vars

\* A sprite that an earlier render composited has been removed by
\* removeSprite while it was in the scene, beside a sprite still shown.
C20_Witness ==
    /\ last.op = "removeSprite"
    /\ last.err = Ok
    /\ last.inScene
    /\ objs[last.obj].id \in SeqRange(lastOrder)
    /\ world.scene # <<>>

\* C22: a Sprite mutator (translate, setPosition, rotate, setRotation,
\* setScale, scaleBy, setZIndex, resetTransform) whose sync to the core
\* fails leaves the Sprite's position, rotation, scale, zindex and
\* transform-dirty flag as they were before the call.
C22_FailedMutatorRestoresSprite ==
    [][(last'.op \in MutatorOps /\ last'.err # Ok)
         => /\ objs'[last'.obj].position = objs[last'.obj].position
            /\ objs'[last'.obj].rotation = objs[last'.obj].rotation
            /\ objs'[last'.obj].scale = objs[last'.obj].scale
            /\ objs'[last'.obj].zindex = objs[last'.obj].zindex
            /\ objs'[last'.obj].transformDirty = objs[last'.obj].transformDirty]_vars

LiveHandles == {h \in Handles : Live(world, h)}
RegistryKeys == {h \in Handles : sprites[h] # NoObj}

\* C21: the keys of the Engine's registry are the live handles of the core,
\* each key maps to the Sprite whose id is the key, and the page's map has
\* the same keys; after clearAllSprites (until the next create) all three
\* are empty, and the spriteCount of a renderWithTiming is the number of
\* live sprites, so 0 after a clear.
C21_RegistriesAgree ==
    /\ RegistryKeys = LiveHandles
    /\ \A h \in RegistryKeys : objs[sprites[h]].id = h
    /\ DemoKeys(demo) = RegistryKeys
    /\ demo.cleared => (LiveHandles = {} /\ RegistryKeys = {} /\ DemoKeys(demo) = {})
    /\ last.op = "renderWithTiming" => lastRead.spriteCount = Cardinality(LiveHandles)

\* After two creates and a clearAllSprites a renderWithTiming has reported
\* no sprite.
C21_Witness ==
    /\ demo.cleared
    /\ Len(objs) = 2
    /\ last.op = "renderWithTiming"
    /\ lastRead.spriteCount = 0

\* C23: the initial z-indices the demo gave its sprites, in creation order,
\* are strictly increasing, whichever of the single-create button, the
\* batch-create button and the image upload created them and whatever was
\* removed in between; so no two are equal.
C23_InitialZIncreasing ==
    \A i, j \in 1 .. Len(demo.initialZ) :
        i < j => demo.initialZ[i] < demo.initialZ[j]

\* An upload that completed after a sprite was created and removed has
\* given its sprite the z-index 2.
C23_Witness ==
    /\ last.op = "imageLoaded"
    /\ last.err = Ok
    /\ demo.initialZ = <<1, 2>>
    /\ RegistrySize(sprites) = 1
    /\ \E h \in Handles : Live(world, h) /\ world.slots[h].zindex = 2

\* C24: perfEnabled is true exactly when the performance panel is expanded,
\* so a frame of the render loop uses renderWithTiming while the panel is
\* expanded and render while it is collapsed.
C24_PerfEnabledIffExpanded ==
    /\ demo.perfEnabled <=> ~demo.collapsed
    /\ last.op = "renderWithTiming" => ~demo.collapsed
    /\ last.op = "render" => demo.collapsed

UploadEndOps == {"imageRejected", "imageLoaded", "imageError"}

UploadIdle ==
    /\ ~demo.uploadDisabled
    /\ demo.uploadText = UploadLabel
    /\ demo.inputValue = ""

\* C25: once the upload handler has disabled the button, the button is
\* eventually enabled again with its original label and the file input
\* cleared; every step that ends an upload attempt (file type rejected,
\* load failed, sprite creation thrown, success) leaves them so; and an
\* upload adds a sprite and a card only when it succeeds, and then one.
C25_UploadEndsEnabled ==
    /\ demo.uploadDisabled ~> UploadIdle
    /\ [][/\ last'.op \in UploadEndOps => UploadIdle'
          /\ (last'.op \in UploadEndOps \cup {"imageChange"}
                 /\ ~(last'.op = "imageLoaded" /\ last'.err = Ok))
               => /\ world' = world
                  /\ sprites' = sprites
                  /\ objs' = objs
                  /\ demo'.sprites = demo.sprites
                  /\ demo'.cards = demo.cards
          /\ (last'.op = "imageLoaded" /\ last'.err = Ok)
               => /\ Cardinality(demo'.cards) = Cardinality(demo.cards) + 1
                  /\ RegistrySize(sprites') = RegistrySize(sprites) + 1
                  /\ demo.cards \subseteq demo'.cards]_vars

\* An upload whose sprite creation threw has ended with the button enabled.
C25_Witness ==
    /\ last.op = "imageLoaded"
    /\ last.err = BufferSizeMismatch
    /\ UploadIdle
    /\ demo.spriteCount = 1

====
